---- MODULE Spec2Model ----
(***************************************************************************)
(* side_quests/qaoa/probleme_2.ipynb: the exercise notebook "Problem 2:    *)
(* Partitionning the Bus Fleet".  The notebook is one markdown cell (the   *)
(* problem statement) followed by four code cells whose source is a single *)
(* comment line each.                                                      *)
(*                                                                         *)
(* Two things are modelled:                                                *)
(*  - a session on the notebook (Spec, LiveSpec): code cells are run one   *)
(*    at a time in any order, or all of them top to bottom, by the python3 *)
(*    kernel the notebook's metadata names;                                *)
(*  - the problem the markdown cell states (SpecGoal): 5 bus lines, an     *)
(*    intersection weight per pair of lines, 2 departure groups.           *)
(***************************************************************************)
EXTENDS Integers, Sequences, FiniteSets, TLC

VARIABLES
    cells,            \* code cell index -> [execution_count, outputs]: the cell fields a run rewrites
    execution_count,  \* the session's prompt counter: the number of executions so far
    user_ns,          \* the kernel's user namespace: bound name -> value
    status,           \* status of the last execution: "none", "ok" or "error"
    queue,            \* the cells of a Run All still to be executed, in order
    run_all,          \* the Run All: "idle" (none asked), "running", "done" or "aborted"
    weights,          \* the intersection weight table: pair of lines -> weight
    groups,           \* the departure group of each line, or Unassigned
    intra,            \* sum of the intersection weights inside the departure groups
    cut               \* sum of the intersection weights of the divided pairs

nbvars == <<cells, execution_count, user_ns, status, queue, run_all>>
goalvars == <<weights, groups, intra, cut>>
vars == <<cells, execution_count, user_ns, status, queue, run_all, weights, groups, intra, cut>>

----------------------------------------------------------------------------
(* Bounds of the model *)

\* A session executes at most this many cells.
MaxExecutions == 7

\* The weight table holds at most this many common edges in total.
MaxTotalWeight == 3

----------------------------------------------------------------------------
(* The notebook file *)

\* JSON null, where the file holds an execution count: executions count from 1
Null == 0

\* "source" of the markdown cell, one string per line (the backquotes around
\* SparsePauliOp are left out: a TLA+ string cannot hold them)
ProblemStatement ==
    << "# Problem 2 : Partitionning the Bus Fleet\n",
       "\n",
       "In part 1, you were able to solve the simple MaxCut problem. Let's spice things up a bit by taking more information into account!\n",
       "\n",
       "## Problem Statement\n",
       "> The STS wishes to add 5 buses each serving a different line, to accomodate the growing need felt by users for the morning departures of 08:00 am and 08:30. Given that some bus lines intersect, we want to organize the buses into 2 groups. Ideally, we want the buses serving the same stops to depart at different times as much as possible.\n",
       "\n",
       "### Supplementary Information\n",
       "In this problem, all bus line intertsections are not equal.\n",
       "An **intersecting weight** is specified, corresponding to the number of common edges between two bus lines. This translates the fact that some bus lines have more stops in common than other and thus, partionning them into different groups takes priority.\n",
       "\n",
       "The following table summarizes the intersection weights for each bus line (i.e. the number of edges in common between each pair of bus lines):\n",
       "\n",
       "<p align=\"center\">\n",
       "<img src=\"figures/table_prob2_ENG.png\" alt=\"prob2\" width=\"500\"/>\n",
       "</p>\n",
       "\n",
       "**A larger weight** means that two bus lines shares a higher number of edges.\n",
       "\n",
       "## Goal\n",
       "Your goal is to **minimize the sum of intersection weights** in each departure group. In other words, you want to divide the departure lines sharing many stops.\n",
       "\n",
       "### How : You need to\n",
       "- encode the problem into a SparsePauliOp Hamiltonian\n",
       "- optimize the parameters of your QAOA circuit\n",
       "- select a good set of hyperparameters (number of layers, optimizer, ...)\n",
       "\n",
       "#### Evaluation : You must\n",
       "- Show a mentor that you were able to run your code correctly (showing cell outputs is sufficient)\n",
       "- Show the optimal solutions you identified for this problem" >>

\* "source" of the four code cells: a list of lines, each line the sequence
\* of its whitespace-separated tokens
\* (variant: the first cell with a statement under its label, binding a name)
HamiltonianSourceFilled ==
    << <<"#", "Instanciate", "your", "Hamiltonian">>,
       <<"weights", "=", "{", "}">> >>

HamiltonianSource == << <<"#", "Instanciate", "your", "Hamiltonian">> >>

CircuitSource == << <<"#", "Instanciate", "your", "QAOA", "circuit">> >>

OptimisationSource == << <<"#", "Hyperparameter", "optimisation">> >>

\* (variant: the last cell with a statement under its label that raises)
AnalysisSourceRaising ==
    << <<"#", "Result", "analysis", "and", "identified", "solutions">>,
       <<"raise", "NotImplementedError">> >>

AnalysisSource == << <<"#", "Result", "analysis", "and", "identified", "solutions">> >>

MarkdownCell(src) == [cell_type |-> "markdown", source |-> src]

\* (variant: a code cell saved after an execution)
CodeCellExecuted(src) ==
    [cell_type |-> "code", execution_count |-> 1, outputs |-> <<>>, source |-> src]

CodeCell(src) ==
    [cell_type |-> "code", execution_count |-> Null, outputs |-> <<>>, source |-> src]

\* "cells" of the file, in order
Notebook ==
    << MarkdownCell(ProblemStatement),
       CodeCell(HamiltonianSource),
       CodeCell(CircuitSource),
       CodeCell(OptimisationSource),
       CodeCell(AnalysisSource) >>

CodeCells == {i \in DOMAIN Notebook : Notebook[i].cell_type = "code"}

\* The cells of s from index i on, top to bottom.
RECURSIVE InOrder(_, _)
InOrder(s, i) ==
    IF i > Len(Notebook) THEN <<>>
    ELSE (IF i \in s THEN <<i>> ELSE <<>>) \o InOrder(s, i + 1)

----------------------------------------------------------------------------
(* Execution of a cell's source by the python kernel *)

\* A "#" starts a comment that runs to the end of the line.
RECURSIVE StripComment(_)
StripComment(line) ==
    IF line = <<>> \/ Head(line) = "#" THEN <<>>
    ELSE <<Head(line)>> \o StripComment(Tail(line))

\* The statements of a source: its lines without their comments, blank lines dropped.
RECURSIVE Statements(_)
Statements(source) ==
    IF source = <<>> THEN <<>>
    ELSE LET stmt == StripComment(Head(source))
         IN  (IF stmt = <<>> THEN <<>> ELSE <<stmt>>) \o Statements(Tail(source))

Bind(ns, name, value) ==
    [n \in DOMAIN ns \cup {name} |-> IF n = name THEN value ELSE ns[n]]

\* One statement: an assignment binds a name, print writes to the cell's
\* output, raise ends the cell with an error; anything else has no effect.
ExecStatement(stmt, st) ==
    CASE Len(stmt) >= 3 /\ stmt[2] = "=" ->
            [st EXCEPT !.ns = Bind(@, stmt[1], SubSeq(stmt, 3, Len(stmt)))]
      [] stmt[1] = "print" ->
            [st EXCEPT !.outputs = Append(@, [output_type |-> "stream", text |-> Tail(stmt)])]
      [] stmt[1] = "raise" ->
            [st EXCEPT !.outputs = Append(@, [output_type |-> "error", ename |-> Tail(stmt)]),
                       !.status = "error"]
      [] OTHER -> st

RECURSIVE RunStatements(_, _)
RunStatements(stmts, st) ==
    IF stmts = <<>> \/ st.status = "error" THEN st
    ELSE RunStatements(Tail(stmts), ExecStatement(Head(stmts), st))

\* The namespace, outputs and status after running a source in namespace ns.
ExecSource(source, ns) ==
    RunStatements(Statements(source), [ns |-> ns, outputs |-> <<>>, status |-> "ok"])

EmptyNamespace == [n \in {} |-> <<>>]

\* Cell i is executed: the counter advances, the cell gets the new count and
\* the outputs of this run, the kernel keeps the bindings the source made.
Execute(i) ==
    LET r == ExecSource(Notebook[i].source, user_ns)
    IN  /\ execution_count' = execution_count + 1
        /\ cells' = [cells EXCEPT ![i] = [execution_count |-> execution_count + 1,
                                          outputs |-> r.outputs]]
        /\ user_ns' = r.ns
        /\ status' = r.status

----------------------------------------------------------------------------
(* The problem of the markdown cell *)

\* "5 buses each serving a different line"
NumLines == 5

\* "organize the buses into 2 groups"
NumGroups == 2

Lines == 1 .. NumLines

DepartureGroups == 1 .. NumGroups

\* each pair of bus lines
Pairs == {p \in Lines \X Lines : p[1] < p[2]}

\* no line has a departure group yet
Unassigned == [l \in Lines |-> 0]

Assignments == [Lines -> DepartureGroups]

NoWeights == [p \in Pairs |-> 0]

RECURSIVE SumWeights(_, _)
SumWeights(w, ps) ==
    IF ps = {} THEN 0
    ELSE LET p == CHOOSE q \in ps : TRUE
         IN  w[p] + SumWeights(w, ps \ {p})

\* the intersection weights of the whole table
TotalWeight(w) == SumWeights(w, Pairs)

\* the intersection weights in departure group k
GroupWeight(w, g, k) == SumWeights(w, {p \in Pairs : g[p[1]] = k /\ g[p[2]] = k})

RECURSIVE SumGroups(_, _, _)
SumGroups(w, g, ks) ==
    IF ks = {} THEN 0
    ELSE LET k == CHOOSE x \in ks : TRUE
         IN  GroupWeight(w, g, k) + SumGroups(w, g, ks \ {k})

\* (variant: the weight inside the first departure group alone)
IntraWeightFirstGroupOnly(w, g) == GroupWeight(w, g, 1)

\* "the sum of intersection weights in each departure group"
IntraWeight(w, g) == SumGroups(w, g, DepartureGroups)

\* the weight of the lines divided: pairs whose lines depart at different times
CutWeight(w, g) == SumWeights(w, {p \in Pairs : g[p[1]] # g[p[2]]})

----------------------------------------------------------------------------
(* The session on the notebook *)

InitNotebook ==
    /\ cells = [i \in CodeCells |-> [execution_count |-> Notebook[i].execution_count,
                                     outputs |-> Notebook[i].outputs]]
    /\ execution_count = 0
    /\ user_ns = EmptyNamespace
    /\ status = "none"
    /\ queue = <<>>
    /\ run_all = "idle"

InitGoal ==
    /\ weights = NoWeights
    /\ groups = Unassigned
    /\ intra = 0
    /\ cut = 0

Init == InitNotebook /\ InitGoal

Idle == run_all # "running"

\* One code cell is run.
RunCell(i) ==
    /\ Idle
    /\ execution_count < MaxExecutions
    /\ Execute(i)
    /\ UNCHANGED <<queue, run_all>>
    /\ UNCHANGED goalvars

\* Run All is asked for: the code cells are queued top to bottom.
RunAll ==
    /\ Idle
    /\ execution_count + Cardinality(CodeCells) <= MaxExecutions
    /\ queue' = InOrder(CodeCells, 1)
    /\ run_all' = "running"
    /\ UNCHANGED <<cells, execution_count, user_ns, status>>
    /\ UNCHANGED goalvars

\* The next queued cell is run; an error aborts the cells queued after it.
RunAllStep ==
    /\ run_all = "running"
    /\ Execute(Head(queue))
    /\ queue' = IF status' = "error" THEN <<>> ELSE Tail(queue)
    /\ run_all' = IF status' = "error" THEN "aborted"
                  ELSE IF Tail(queue) = <<>> THEN "done"
                  ELSE "running"
    /\ UNCHANGED goalvars

Next ==
    \/ \E i \in CodeCells : RunCell(i)
    \/ RunAll
    \/ RunAllStep

Spec == Init /\ [][Next]_vars

\* The kernel runs every queued cell.
LiveSpec == Spec /\ WF_vars(RunAllStep)

----------------------------------------------------------------------------
(* The problem: weight tables and partitions *)

\* Two lines get one more common edge.
AddCommonEdge(p) ==
    /\ groups = Unassigned
    /\ TotalWeight(weights) < MaxTotalWeight
    /\ weights' = [weights EXCEPT ![p] = @ + 1]
    /\ UNCHANGED <<groups, intra, cut>>
    /\ UNCHANGED nbvars

\* Each line is placed in exactly one departure group.
Partition(g) ==
    /\ groups' = g
    /\ intra' = IntraWeight(weights, g)
    /\ cut' = CutWeight(weights, g)
    /\ UNCHANGED weights
    /\ UNCHANGED nbvars

NextGoal ==
    \/ \E p \in Pairs : AddCommonEdge(p)
    \/ \E g \in Assignments : Partition(g)

SpecGoal == Init /\ [][NextGoal]_vars

----------------------------------------------------------------------------
(* Properties *)

StoredCodeCellsEmpty ==
    /\ Cardinality(CodeCells) = 4
    /\ \A i \in CodeCells :
          /\ Len(Notebook[i].source) = 1
          /\ Statements(Notebook[i].source) = <<>>
          /\ Notebook[i].execution_count = Null
          /\ Notebook[i].outputs = <<>>
    /\ execution_count = 0 =>
          \A i \in CodeCells : cells[i] = [execution_count |-> Null, outputs |-> <<>>]

\* The notebook as loaded from the file, before any execution.
FreshlyLoaded ==
    /\ execution_count = 0
    /\ run_all = "idle"
    /\ DOMAIN cells = CodeCells
    /\ \A i \in CodeCells : cells[i].execution_count = Notebook[i].execution_count

IsMinIntra(w, g) == \A h \in Assignments : IntraWeight(w, g) <= IntraWeight(w, h)

IsMaxCut(w, g) == \A h \in Assignments : CutWeight(w, h) <= CutWeight(w, g)

RunAllTerminatesWithoutError ==
    /\ [](status # "error" /\ run_all # "aborted")
    /\ (run_all = "running") ~> (run_all = "done")

\* A Run All has just completed: the code cells hold consecutive execution
\* counts, top to bottom, ending at the session's counter.
RunAllCompleted ==
    /\ run_all = "done"
    /\ queue = <<>>
    /\ status = "ok"
    /\ \A i \in CodeCells :
          cells[i].execution_count = execution_count - (Len(Notebook) - i)

====
